---- MODULE Spec2Model ----
(***************************************************************************)
(* BufferLine of cosmic-text (src/src/buffer_line.rs): a line of text with *)
(* its line ending, attribute list, alignment, shaping mode and metadata,  *)
(* and the two caches (shape, layout) that the mutators invalidate and     *)
(* shape()/layout() refill.                                                *)
(*                                                                         *)
(* Option<T> is modelled as a set: None is {} and Some(x) is {x}.          *)
(* A text is a sequence of one-byte characters, so text.len() is Len.      *)
(*                                                                         *)
(* Spec       every public operation, each taken whole, on short texts     *)
(* SpecSteps  shape() and layout() statement by statement                  *)
(* SpecPool   the pooled line: empty, reclaim_attrs, reclaim_text,         *)
(*            reset_new                                                    *)
(* SpecSplice append and split_off on lines of every text and span set     *)
(***************************************************************************)
EXTENDS Integers, Sequences, FiniteSets, TLC

VARIABLES
    line,     \* the BufferLine the operations act on (self)
    op,       \* name of the last operation called on the line
    arg,      \* the arguments of that call
    ret,      \* what that call returned
    engines,  \* the engines ("shape", "layout") that call invoked
    old,      \* the states of the slots and the metadata right before that call
    pc,       \* the statement a running shape() or layout() is at ("idle": none runs)
    scratch   \* the locals of the running call

vars == <<line, op, arg, ret, engines, old, pc, scratch>>

(***************************************************************************)
(* Bounds and value sets                                                   *)
(***************************************************************************)
MaxLen == 3      \* longest text of the lines that are spliced (SpecSplice)
MainLen == 1     \* longest text given to the setters (Spec)

Chars == {"a", "b"}
OneChar == {"a"}
Endings == {"None", "Lf"}
Shapings == {"Basic", "Advanced"}
AttrVals == {"plain", "bold"}
Aligns == {{}, {"Left"}}
Metas == {7}
TabWidths == {4, 8}
FontSizes == {12, 24}
WidthOpts == {{80}}
Wraps == {"Word"}
MonoOpts == {{}}

TextsOver(cs, n) == UNION {[1..k -> cs] : k \in 0..n}

(***************************************************************************)
(* Cached<T>: Empty, Unused(T) or Used(T).  The payload of Unused is       *)
(* storage kept for reuse: no operation reads its content (get gives None, *)
(* and what take_unused hands out is overwritten by the engine), so only   *)
(* the payload of Used is carried in val.                                  *)
(***************************************************************************)
Empty == [st |-> "Empty", val |-> {}]

set_used(v) == [st |-> "Used", val |-> {v}]

set_unused(c) == IF c.st = "Used" THEN [st |-> "Unused", val |-> {}] ELSE c

is_unused(c) == c.st # "Used"

get(c) == IF c.st = "Used" THEN c.val ELSE {}

take_unused(c) ==
    IF c.st = "Unused"
    THEN [slot |-> Empty, taken |-> TRUE]
    ELSE [slot |-> c, taken |-> FALSE]

(***************************************************************************)
(* AttrsList: default attributes plus spans.  spans is the set of pairs    *)
(* <<i, a>>: byte i is covered by a span with attributes a (at most one    *)
(* pair for each byte).                                                    *)
(***************************************************************************)
AttrsList_new(d) == [defaults |-> d, spans |-> {}]

add_span(al, start, end, a) ==
    [al EXCEPT !.spans = {p \in @ : p[1] < start \/ p[1] >= end}
                            \cup {<<i, a>> : i \in start..(end - 1)}]

get_span(al, i) ==
    IF \E p \in al.spans : p[1] = i
    THEN (CHOOSE p \in al.spans : p[1] = i)[2]
    ELSE al.defaults

\* the maximal runs <<start, end, attrs>> of equal attributes
SpanRanges(al) ==
    {r \in {<<p[1], q[1] + 1, p[2]>> : p \in al.spans, q \in al.spans} :
        /\ r[1] < r[2]
        /\ \A i \in r[1]..(r[2] - 1) : <<i, r[3]>> \in al.spans
        /\ <<r[1] - 1, r[3]>> \notin al.spans
        /\ <<r[2], r[3]>> \notin al.spans}

RECURSIVE RangesInOrder(_)
RangesInOrder(rs) ==
    IF rs = {} THEN <<>>
    ELSE LET first == CHOOSE r \in rs : \A o \in rs : r[1] <= o[1]
         IN <<first>> \o RangesInOrder(rs \ {first})

spans_iter(al) == RangesInOrder(SpanRanges(al))

attrs_split_off(al, index) ==
    [kept |-> [al EXCEPT !.spans = {p \in @ : p[1] < index}],
     new  |-> [defaults |-> al.defaults,
               spans |-> {<<p[1] - index, p[2]>> : p \in {q \in al.spans : q[1] >= index}}]]

(***************************************************************************)
(* The engines, deterministic in their inputs: an artifact is identified   *)
(* by the inputs it was built from.                                        *)
(***************************************************************************)
ShapeLine_build(text, attrs_list, shaping, tab_width) ==
    [text |-> text, attrs_list |-> attrs_list, shaping |-> shaping, tab_width |-> tab_width]

layout_to_buffer(shape_line, font_size, width_opt, wrap, align, match_mono_width) ==
    [shape |-> shape_line, font_size |-> font_size, width_opt |-> width_opt,
     wrap |-> wrap, align |-> align, match_mono_width |-> match_mono_width]

(***************************************************************************)
(* BufferLine                                                              *)
(***************************************************************************)
new(text, ending, attrs_list, shaping) ==
    [text |-> text, ending |-> ending, attrs_list |-> attrs_list, align |-> {},
     shape_opt |-> Empty, layout_opt |-> Empty, shaping |-> shaping, metadata |-> {}]

\* reset_new that leaves the layout slot as it is
reset_new_keeps_layout(l, text, ending, attrs_list, shaping) ==
    [l EXCEPT !.text = text, !.ending = ending, !.attrs_list = attrs_list,
              !.align = {},
              !.shape_opt = set_unused(@),
              !.shaping = shaping, !.metadata = {}]

\* reset_new that assigns Cached::Empty to both slots, as new does
reset_new_drops_caches(l, text, ending, attrs_list, shaping) ==
    [l EXCEPT !.text = text, !.ending = ending, !.attrs_list = attrs_list,
              !.align = {},
              !.shape_opt = Empty, !.layout_opt = Empty,
              !.shaping = shaping, !.metadata = {}]

\* reset_new without its assignment align = None
reset_new_keeps_align(l, text, ending, attrs_list, shaping) ==
    [l EXCEPT !.text = text, !.ending = ending, !.attrs_list = attrs_list,
              !.shape_opt = set_unused(@), !.layout_opt = set_unused(@),
              !.shaping = shaping, !.metadata = {}]

reset_new(l, text, ending, attrs_list, shaping) ==
    [l EXCEPT !.text = text, !.ending = ending, !.attrs_list = attrs_list,
              !.align = {},
              !.shape_opt = set_unused(@), !.layout_opt = set_unused(@),
              !.shaping = shaping, !.metadata = {}]

reset_layout(l) == [l EXCEPT !.layout_opt = set_unused(@)]

\* reset_shaping without its call of reset_layout
reset_shaping_keeps_layout(l) == [l EXCEPT !.shape_opt = set_unused(@)]

reset_shaping(l) == reset_layout([l EXCEPT !.shape_opt = set_unused(@)])

reset(l) == reset_shaping([l EXCEPT !.metadata = {}])

\* set_text that compares text and attrs_list only, as its doc comment reads
set_text_ignores_ending(l, text, ending, attrs_list) ==
    IF text # l.text \/ attrs_list # l.attrs_list
    THEN [self |-> reset([l EXCEPT !.text = text, !.ending = ending,
                                   !.attrs_list = attrs_list]),
          ret |-> TRUE]
    ELSE [self |-> l, ret |-> FALSE]

set_text(l, text, ending, attrs_list) ==
    IF text # l.text \/ ending # l.ending \/ attrs_list # l.attrs_list
    THEN [self |-> reset([l EXCEPT !.text = text, !.ending = ending,
                                   !.attrs_list = attrs_list]),
          ret |-> TRUE]
    ELSE [self |-> l, ret |-> FALSE]

\* set_ending that calls reset instead of reset_shaping
set_ending_resets_all(l, ending) ==
    IF ending # l.ending
    THEN [self |-> reset([l EXCEPT !.ending = ending]), ret |-> TRUE]
    ELSE [self |-> l, ret |-> FALSE]

set_ending(l, ending) ==
    IF ending # l.ending
    THEN [self |-> reset_shaping([l EXCEPT !.ending = ending]), ret |-> TRUE]
    ELSE [self |-> l, ret |-> FALSE]

\* set_attrs_list that calls reset instead of reset_shaping
set_attrs_list_resets_all(l, attrs_list) ==
    IF attrs_list # l.attrs_list
    THEN [self |-> reset([l EXCEPT !.attrs_list = attrs_list]), ret |-> TRUE]
    ELSE [self |-> l, ret |-> FALSE]

set_attrs_list(l, attrs_list) ==
    IF attrs_list # l.attrs_list
    THEN [self |-> reset_shaping([l EXCEPT !.attrs_list = attrs_list]), ret |-> TRUE]
    ELSE [self |-> l, ret |-> FALSE]

\* set_align without its call of reset_layout
set_align_keeps_layout(l, align) ==
    IF align # l.align
    THEN [self |-> [l EXCEPT !.align = align], ret |-> TRUE]
    ELSE [self |-> l, ret |-> FALSE]

\* set_align that calls reset_shaping instead of reset_layout
set_align_resets_shaping(l, align) ==
    IF align # l.align
    THEN [self |-> reset_shaping([l EXCEPT !.align = align]), ret |-> TRUE]
    ELSE [self |-> l, ret |-> FALSE]

set_align(l, align) ==
    IF align # l.align
    THEN [self |-> reset_layout([l EXCEPT !.align = align]), ret |-> TRUE]
    ELSE [self |-> l, ret |-> FALSE]

set_metadata(l, metadata) == [l EXCEPT !.metadata = {metadata}]

\* Attrs::new() and LineEnding::default(), the values empty() and
\* reclaim_attrs fill in; reset_new overwrites both fields
Attrs_new == "plain"
LineEnding_default == "Lf"

empty ==
    [text |-> <<>>, ending |-> LineEnding_default,
     attrs_list |-> AttrsList_new(Attrs_new), align |-> {},
     shape_opt |-> Empty, layout_opt |-> Empty, shaping |-> "Advanced",
     metadata |-> {}]

reclaim_attrs(l) ==
    [self |-> [l EXCEPT !.attrs_list = AttrsList_new(Attrs_new)], ret |-> l.attrs_list]

reclaim_text(l) == [self |-> [l EXCEPT !.text = <<>>], ret |-> <<>>]

\* the loop of append adding other's spans at their own offsets, unshifted
RECURSIVE AddUnshifted(_, _, _)
AddUnshifted(al, ranges, len) ==
    IF ranges = <<>> THEN al
    ELSE LET r == Head(ranges)
         IN AddUnshifted(add_span(al, r[1], r[2], r[3]), Tail(ranges), len)

\* the loop of append over other's spans, each shifted by len
RECURSIVE AddShifted(_, _, _)
AddShifted(al, ranges, len) ==
    IF ranges = <<>> THEN al
    ELSE LET r == Head(ranges)
         IN AddShifted(add_span(al, r[1] + len, r[2] + len, r[3]), Tail(ranges), len)

\* append without its final call of reset
append_keeps_caches(l, other) ==
    LET len == Len(l.text)
        withDefault ==
            IF other.attrs_list.defaults # l.attrs_list.defaults
            THEN add_span(l.attrs_list, len, len + Len(other.text),
                          other.attrs_list.defaults)
            ELSE l.attrs_list
    IN [l EXCEPT !.text = @ \o other.text,
                 !.attrs_list = AddShifted(withDefault,
                                           spans_iter(other.attrs_list), len)]

\* append without the span that carries other's default attributes
append_without_default_span(l, other) ==
    reset([l EXCEPT !.text = @ \o other.text,
                    !.attrs_list = AddShifted(@, spans_iter(other.attrs_list),
                                              Len(l.text))])

\* append that takes over the line ending of other, the last line merged
append_takes_ending(l, other) ==
    LET len == Len(l.text)
        withDefault ==
            IF other.attrs_list.defaults # l.attrs_list.defaults
            THEN add_span(l.attrs_list, len, len + Len(other.text),
                          other.attrs_list.defaults)
            ELSE l.attrs_list
    IN reset([l EXCEPT !.text = @ \o other.text,
                       !.ending = other.ending,
                       !.attrs_list = AddShifted(withDefault,
                                                 spans_iter(other.attrs_list), len)])

append(l, other) ==
    LET len == Len(l.text)
        withDefault ==
            IF other.attrs_list.defaults # l.attrs_list.defaults
            THEN add_span(l.attrs_list, len, len + Len(other.text),
                          other.attrs_list.defaults)
            ELSE l.attrs_list
    IN reset([l EXCEPT !.text = @ \o other.text,
                       !.attrs_list = AddShifted(withDefault,
                                                 spans_iter(other.attrs_list), len)])

\* split_off that leaves the new line at the alignment new() gives it
split_off_drops_align(l, index) ==
    LET text == SubSeq(l.text, index + 1, Len(l.text))
        sp == attrs_split_off(l.attrs_list, index)
        self == reset([l EXCEPT !.text = SubSeq(@, 1, index), !.attrs_list = sp.kept])
    IN [self |-> self, ret |-> new(text, self.ending, sp.new, self.shaping)]

split_off(l, index) ==
    LET text == SubSeq(l.text, index + 1, Len(l.text))
        sp == attrs_split_off(l.attrs_list, index)
        self == reset([l EXCEPT !.text = SubSeq(@, 1, index), !.attrs_list = sp.kept])
    IN [self |-> self,
        ret |-> [new(text, self.ending, sp.new, self.shaping) EXCEPT !.align = self.align]]

\* shape without the cache protocol: it builds on every call and leaves the
\* layout slot alone
shape_builds_every_call(l, tab_width) ==
    LET built == ShapeLine_build(l.text, l.attrs_list, l.shaping, tab_width)
        self == [l EXCEPT !.shape_opt = set_used(built)]
    IN [self |-> self, ret |-> get(self.shape_opt), engines |-> {"shape"}]

\* shape with the set_unused of the layout slot after the if, run on every call
shape_always_invalidates_layout(l, tab_width) ==
    IF is_unused(l.shape_opt)
    THEN LET built == ShapeLine_build(l.text, l.attrs_list, l.shaping, tab_width)
             self == [l EXCEPT !.shape_opt = set_used(built),
                               !.layout_opt = set_unused(@)]
         IN [self |-> self, ret |-> get(self.shape_opt), engines |-> {"shape"}]
    ELSE [self |-> [l EXCEPT !.layout_opt = set_unused(@)],
          ret |-> get(l.shape_opt), engines |-> {}]

\* shape whose closing set_unused is applied to shape_opt, not layout_opt
shape_marks_itself_unused(l, tab_width) ==
    IF is_unused(l.shape_opt)
    THEN LET built == ShapeLine_build(l.text, l.attrs_list, l.shaping, tab_width)
             self == [l EXCEPT !.shape_opt = set_unused(set_used(built))]
         IN [self |-> self, ret |-> get(self.shape_opt), engines |-> {"shape"}]
    ELSE [self |-> l, ret |-> get(l.shape_opt), engines |-> {}]

shape(l, tab_width) ==
    IF is_unused(l.shape_opt)
    THEN LET t == take_unused(l.shape_opt)
             built == ShapeLine_build(l.text, l.attrs_list, l.shaping, tab_width)
             self == [l EXCEPT !.shape_opt = set_used(built),
                               !.layout_opt = set_unused(@)]
         IN [self |-> self, ret |-> get(self.shape_opt), engines |-> {"shape"}]
    ELSE [self |-> l, ret |-> get(l.shape_opt), engines |-> {}]

\* layout without the test of is_unused: it lays out on every call
layout_every_call(l, font_size, width_opt, wrap, match_mono_width, tab_width) ==
    LET align == l.align
        t == take_unused(l.layout_opt)
        s == shape([l EXCEPT !.layout_opt = t.slot], tab_width)
        rows == layout_to_buffer(CHOOSE x \in s.ret : TRUE, font_size,
                                 width_opt, wrap, align, match_mono_width)
        self == [s.self EXCEPT !.layout_opt = set_used(rows)]
    IN [self |-> self, ret |-> get(self.layout_opt),
        engines |-> s.engines \cup {"layout"}]

layout(l, font_size, width_opt, wrap, match_mono_width, tab_width) ==
    IF is_unused(l.layout_opt)
    THEN LET align == l.align
             t == take_unused(l.layout_opt)
             s == shape([l EXCEPT !.layout_opt = t.slot], tab_width)
         IN IF s.ret = {}
            THEN \* expect("shape not found") fails
                 [self |-> s.self, ret |-> {}, engines |-> s.engines]
            ELSE LET rows == layout_to_buffer(CHOOSE x \in s.ret : TRUE, font_size,
                                              width_opt, wrap, align, match_mono_width)
                     self == [s.self EXCEPT !.layout_opt = set_used(rows)]
                 IN [self |-> self, ret |-> get(self.layout_opt),
                     engines |-> s.engines \cup {"layout"}]
    ELSE [self |-> l, ret |-> get(l.layout_opt), engines |-> {}]

shape_opt(l) == get(l.shape_opt)

layout_opt(l) == get(l.layout_opt)

metadata(l) == l.metadata

\* the states of the two slots and the metadata, as recorded in old
Peek(l) == [shape |-> l.shape_opt.st, layout |-> l.layout_opt.st, metadata |-> l.metadata]

(***************************************************************************)
(* Inputs of the calls                                                     *)
(***************************************************************************)
AttrsInputs ==
    {AttrsList_new(d) : d \in AttrVals}
        \cup {add_span(AttrsList_new("plain"), 0, 1, "bold")}

TextInputs == TextsOver(OneChar, MainLen)

OtherFresh ==
    {[new(t, e, a, s) EXCEPT !.align = al, !.metadata = {7}] :
        t \in TextInputs, e \in {"Lf"}, a \in AttrsInputs,
        s \in {"Basic"}, al \in {{"Left"}}}

\* the lines given to append: fresh ones, and those with a span also shaped
\* and laid out
OtherLines ==
    OtherFresh \cup {layout(o, 12, {80}, "Word", {}, 4).self :
                        o \in {f \in OtherFresh : f.attrs_list.spans # {}}}

\* the locals of shape() and layout() while no call runs.  shape and layout
\* tell what the local of shape() (line) and of layout() (layout) holds:
\* "none", the storage "taken" from the slot, or "fresh" storage;
\* takes counts the storages taken from each slot by the running call,
\* align is the local of layout(), entry the line the outermost call began on
NoScratch ==
    [shape |-> "none", layout |-> "none", takes |-> [shape |-> 0, layout |-> 0],
     align |-> {}, entry |-> {}]

(***************************************************************************)
(* The operations on the line                                              *)
(***************************************************************************)
Init ==
    \E t \in TextInputs, e \in Endings, a \in AttrsInputs, s \in Shapings :
        /\ line = new(t, e, a, s)
        /\ op = "new"
        /\ arg = <<t, e, a, s>>
        /\ ret = {}
        /\ engines = {}
        /\ old = Peek(new(t, e, a, s))
        /\ pc = "idle"
        /\ scratch = NoScratch

ResetNew ==
    \E t \in TextInputs, e \in Endings, a \in AttrsInputs, s \in Shapings :
        /\ line' = reset_new(line, t, e, a, s)
        /\ op' = "reset_new"
        /\ arg' = <<t, e, a, s>>
        /\ ret' = {}
        /\ engines' = {}
        /\ old' = Peek(line)
        /\ UNCHANGED <<pc, scratch>>

SetText ==
    \E t \in TextInputs, e \in Endings, a \in AttrsInputs :
        LET r == set_text(line, t, e, a)
        IN /\ line' = r.self
           /\ op' = "set_text"
           /\ arg' = <<t, e, a>>
           /\ ret' = r.ret
           /\ engines' = {}
           /\ old' = Peek(line)
           /\ UNCHANGED <<pc, scratch>>

SetEnding ==
    \E e \in Endings :
        LET r == set_ending(line, e)
        IN /\ line' = r.self
           /\ op' = "set_ending"
           /\ arg' = <<e>>
           /\ ret' = r.ret
           /\ engines' = {}
           /\ old' = Peek(line)
           /\ UNCHANGED <<pc, scratch>>

SetAttrsList ==
    \E a \in AttrsInputs :
        LET r == set_attrs_list(line, a)
        IN /\ line' = r.self
           /\ op' = "set_attrs_list"
           /\ arg' = <<a>>
           /\ ret' = r.ret
           /\ engines' = {}
           /\ old' = Peek(line)
           /\ UNCHANGED <<pc, scratch>>

SetAlign ==
    \E al \in Aligns :
        LET r == set_align(line, al)
        IN /\ line' = r.self
           /\ op' = "set_align"
           /\ arg' = <<al>>
           /\ ret' = r.ret
           /\ engines' = {}
           /\ old' = Peek(line)
           /\ UNCHANGED <<pc, scratch>>

SetMetadata ==
    \E m \in Metas :
        /\ line' = set_metadata(line, m)
        /\ op' = "set_metadata"
        /\ arg' = <<m>>
        /\ ret' = {}
        /\ engines' = {}
        /\ old' = Peek(line)
        /\ UNCHANGED <<pc, scratch>>

AppendFrom(others, bound) ==
    \E other \in others :
        /\ Len(line.text) + Len(other.text) <= bound
        /\ line' = append(line, other)
        /\ op' = "append"
        /\ arg' = <<other>>
        /\ ret' = {}
        /\ engines' = {}
        /\ old' = Peek(line)
        /\ UNCHANGED <<pc, scratch>>

AppendLine == AppendFrom(OtherLines, MainLen)

SplitOff ==
    \E index \in 0..Len(line.text) :
        LET r == split_off(line, index)
        IN /\ line' = r.self
           /\ op' = "split_off"
           /\ arg' = <<index>>
           /\ ret' = r.ret
           /\ engines' = {}
           /\ old' = Peek(line)
           /\ UNCHANGED <<pc, scratch>>

Reset ==
    /\ line' = reset(line)
    /\ op' = "reset"
    /\ arg' = <<>>
    /\ ret' = {}
    /\ engines' = {}
    /\ old' = Peek(line)
    /\ UNCHANGED <<pc, scratch>>

ResetShaping ==
    /\ line' = reset_shaping(line)
    /\ op' = "reset_shaping"
    /\ arg' = <<>>
    /\ ret' = {}
    /\ engines' = {}
    /\ old' = Peek(line)
    /\ UNCHANGED <<pc, scratch>>

ResetLayout ==
    /\ line' = reset_layout(line)
    /\ op' = "reset_layout"
    /\ arg' = <<>>
    /\ ret' = {}
    /\ engines' = {}
    /\ old' = Peek(line)
    /\ UNCHANGED <<pc, scratch>>

Shape ==
    \E tab \in TabWidths :
        LET r == shape(line, tab)
        IN /\ line' = r.self
           /\ op' = "shape"
           /\ arg' = <<tab>>
           /\ ret' = r.ret
           /\ engines' = r.engines
           /\ old' = Peek(line)
           /\ UNCHANGED <<pc, scratch>>

Layout ==
    \E fs \in FontSizes, w \in WidthOpts, wr \in Wraps, mono \in MonoOpts,
       tab \in TabWidths :
        LET r == layout(line, fs, w, wr, mono, tab)
        IN /\ line' = r.self
           /\ op' = "layout"
           /\ arg' = <<fs, w, wr, mono, tab>>
           /\ ret' = r.ret
           /\ engines' = r.engines
           /\ old' = Peek(line)
           /\ UNCHANGED <<pc, scratch>>

Next ==
    \/ ResetNew
    \/ SetText
    \/ SetEnding
    \/ SetAttrsList
    \/ SetAlign
    \/ SetMetadata
    \/ AppendLine
    \/ SplitOff
    \/ Reset
    \/ ResetShaping
    \/ ResetLayout
    \/ Shape
    \/ Layout

Spec == Init /\ [][Next]_vars

(***************************************************************************)
(* shape() and layout() statement by statement.  pc names the statement    *)
(* the running call is at; op and arg are the outermost call, so that the  *)
(* statements of shape() also run, with op = "layout", as the call that    *)
(* layout() makes.  A failing expect leaves pc at "panic".                 *)
(***************************************************************************)
\* tab_width of the running call
TabWidthOfCall == IF op = "shape" THEN arg[1] ELSE arg[5]

\* layout() taking the storage from a clone of the slot
StepLayoutTake_from_clone ==
    /\ pc = "layout:take"
    /\ LET t == take_unused(line.layout_opt)
       IN scratch' = [scratch EXCEPT
                         !.layout = IF t.taken THEN "taken" ELSE "fresh",
                         !.takes.layout = IF t.taken THEN @ + 1 ELSE @]
    /\ pc' = "layout:shape"
    /\ UNCHANGED <<line, op, arg, ret, engines, old>>

CallShape ==
    /\ pc = "idle"
    /\ \E tab \in TabWidths :
          /\ op' = "shape"
          /\ arg' = <<tab>>
    /\ ret' = {}
    /\ engines' = {}
    /\ old' = Peek(line)
    /\ scratch' = [NoScratch EXCEPT !.entry = {line}]
    /\ pc' = IF is_unused(line.shape_opt) THEN "shape:take" ELSE "shape:get"
    /\ UNCHANGED line

StepShapeTake ==
    /\ pc = "shape:take"
    /\ LET t == take_unused(line.shape_opt)
       IN /\ line' = [line EXCEPT !.shape_opt = t.slot]
          /\ scratch' = [scratch EXCEPT
                            !.shape = IF t.taken THEN "taken" ELSE "fresh",
                            !.takes.shape = IF t.taken THEN @ + 1 ELSE @]
    /\ pc' = "shape:build"
    /\ UNCHANGED <<op, arg, ret, engines, old>>

StepShapeBuild ==
    /\ pc = "shape:build"
    /\ engines' = engines \cup {"shape"}
    /\ pc' = "shape:set_used"
    /\ UNCHANGED <<line, op, arg, ret, old, scratch>>

StepShapeSetUsed ==
    /\ pc = "shape:set_used"
    /\ line' = [line EXCEPT !.shape_opt =
                    set_used(ShapeLine_build(line.text, line.attrs_list,
                                             line.shaping, TabWidthOfCall))]
    /\ scratch' = [scratch EXCEPT !.shape = "none"]
    /\ pc' = "shape:set_unused"
    /\ UNCHANGED <<op, arg, ret, engines, old>>

StepShapeSetUnused ==
    /\ pc = "shape:set_unused"
    /\ line' = [line EXCEPT !.layout_opt = set_unused(@)]
    /\ pc' = "shape:get"
    /\ UNCHANGED <<op, arg, ret, engines, old, scratch>>

StepShapeGet ==
    /\ pc = "shape:get"
    /\ IF get(line.shape_opt) = {}
       THEN pc' = "panic" /\ UNCHANGED <<ret, scratch>>
       ELSE IF op = "shape"
            THEN pc' = "idle" /\ ret' = get(line.shape_opt) /\ scratch' = NoScratch
            ELSE pc' = "layout:to_buffer" /\ UNCHANGED <<ret, scratch>>
    /\ UNCHANGED <<line, op, arg, engines, old>>

CallLayout ==
    /\ pc = "idle"
    /\ \E fs \in FontSizes, w \in WidthOpts, wr \in Wraps, mono \in MonoOpts,
          tab \in TabWidths :
          /\ op' = "layout"
          /\ arg' = <<fs, w, wr, mono, tab>>
    /\ ret' = {}
    /\ engines' = {}
    /\ old' = Peek(line)
    /\ IF is_unused(line.layout_opt)
       THEN /\ pc' = "layout:take"
            /\ scratch' = [NoScratch EXCEPT !.entry = {line}, !.align = line.align]
       ELSE /\ pc' = "layout:get"
            /\ scratch' = [NoScratch EXCEPT !.entry = {line}]
    /\ UNCHANGED line

StepLayoutTake ==
    /\ pc = "layout:take"
    /\ LET t == take_unused(line.layout_opt)
       IN /\ line' = [line EXCEPT !.layout_opt = t.slot]
          /\ scratch' = [scratch EXCEPT
                            !.layout = IF t.taken THEN "taken" ELSE "fresh",
                            !.takes.layout = IF t.taken THEN @ + 1 ELSE @]
    /\ pc' = "layout:shape"
    /\ UNCHANGED <<op, arg, ret, engines, old>>

StepLayoutShape ==
    /\ pc = "layout:shape"
    /\ pc' = IF is_unused(line.shape_opt) THEN "shape:take" ELSE "shape:get"
    /\ UNCHANGED <<line, op, arg, ret, engines, old, scratch>>

StepLayoutToBuffer ==
    /\ pc = "layout:to_buffer"
    /\ engines' = engines \cup {"layout"}
    /\ pc' = "layout:set_used"
    /\ UNCHANGED <<line, op, arg, ret, old, scratch>>

StepLayoutSetUsed ==
    /\ pc = "layout:set_used"
    /\ line' = [line EXCEPT !.layout_opt =
                    set_used(layout_to_buffer(CHOOSE x \in get(line.shape_opt) : TRUE,
                                              arg[1], arg[2], arg[3], scratch.align,
                                              arg[4]))]
    /\ scratch' = [scratch EXCEPT !.layout = "none"]
    /\ pc' = "layout:get"
    /\ UNCHANGED <<op, arg, ret, engines, old>>

StepLayoutGet ==
    /\ pc = "layout:get"
    /\ IF get(line.layout_opt) = {}
       THEN pc' = "panic" /\ UNCHANGED <<ret, scratch>>
       ELSE pc' = "idle" /\ ret' = get(line.layout_opt) /\ scratch' = NoScratch
    /\ UNCHANGED <<line, op, arg, engines, old>>

\* the calls made between two reads
StepMutate ==
    /\ pc = "idle"
    /\ (SetText \/ SetAlign \/ Reset \/ ResetShaping \/ ResetLayout)

StepNext ==
    \/ StepMutate
    \/ CallShape
    \/ StepShapeTake
    \/ StepShapeBuild
    \/ StepShapeSetUsed
    \/ StepShapeSetUnused
    \/ StepShapeGet
    \/ CallLayout
    \/ StepLayoutTake
    \/ StepLayoutShape
    \/ StepLayoutToBuffer
    \/ StepLayoutSetUsed
    \/ StepLayoutGet

SpecSteps == Init /\ [][StepNext]_vars

(***************************************************************************)
(* The line as a pooled object: made by empty() or by new, emptied by      *)
(* reclaim_attrs and reclaim_text, which leave it invalid until reset_new. *)
(***************************************************************************)
Invalid == op \in {"empty", "reclaim_attrs", "reclaim_text"}

PoolEmpty ==
    /\ line = empty
    /\ op = "empty"
    /\ arg = <<>>
    /\ ret = {}
    /\ engines = {}
    /\ old = Peek(empty)
    /\ pc = "idle"
    /\ scratch = NoScratch

PoolInit == Init \/ PoolEmpty

ReclaimAttrs ==
    LET r == reclaim_attrs(line)
    IN /\ line' = r.self
       /\ op' = "reclaim_attrs"
       /\ arg' = <<>>
       /\ ret' = r.ret
       /\ engines' = {}
       /\ old' = Peek(line)
       /\ UNCHANGED <<pc, scratch>>

ReclaimText ==
    LET r == reclaim_text(line)
    IN /\ line' = r.self
       /\ op' = "reclaim_text"
       /\ arg' = <<>>
       /\ ret' = r.ret
       /\ engines' = {}
       /\ old' = Peek(line)
       /\ UNCHANGED <<pc, scratch>>

\* between two reset_new the line is aligned, tagged, shaped and laid out;
\* an invalid line is only reclaimed further or reset by reset_new
PoolUse == ~Invalid /\ (SetAlign \/ SetMetadata \/ Shape \/ Layout)

PoolNext ==
    \/ ResetNew
    \/ ReclaimAttrs
    \/ ReclaimText
    \/ PoolUse

SpecPool == PoolInit /\ [][PoolNext]_vars

(***************************************************************************)
(* append and split_off applied once to lines of every text up to MaxLen   *)
(* bytes and every attribute list whose spans cover bytes below MaxLen     *)
(* (also bytes past the end of the text, which AttrsList accepts).         *)
(***************************************************************************)
SpanSets(n) ==
    UNION {{{<<i, f[i]>> : i \in D} : f \in [D -> AttrVals]} : D \in SUBSET (0..(n - 1))}

SpliceAttrs == {[defaults |-> d, spans |-> sp] : d \in AttrVals, sp \in SpanSets(MaxLen)}

SpliceLines ==
    {new(t, "None", a, "Advanced") : t \in TextsOver(Chars, MaxLen), a \in SpliceAttrs}

SpliceOthers ==
    {[new(t, "Lf", a, "Basic") EXCEPT !.align = {"Left"}] :
        t \in TextsOver(OneChar, MaxLen), a \in SpliceAttrs}

\* a line in use: aligned, tagged with metadata, shaped and laid out
SpliceUsed(l) == layout(set_metadata(set_align(l, {"Left"}).self, 7), 12, {80}, "Word", {}, 4)

SpliceInitNew ==
    \E l \in SpliceLines :
        /\ line = l
        /\ op = "new"
        /\ arg = <<l.text, l.ending, l.attrs_list, l.shaping>>
        /\ ret = {}
        /\ engines = {}
        /\ old = Peek(l)
        /\ pc = "idle"
        /\ scratch = NoScratch

SpliceInitUsed ==
    \E l \in SpliceLines :
        /\ l.text \in TextsOver(OneChar, MaxLen)
        /\ line = SpliceUsed(l).self
        /\ op = "layout"
        /\ arg = <<12, {80}, "Word", {}, 4>>
        /\ ret = SpliceUsed(l).ret
        /\ engines = SpliceUsed(l).engines
        /\ old = Peek(set_metadata(set_align(l, {"Left"}).self, 7))
        /\ pc = "idle"
        /\ scratch = NoScratch

SpliceInit == SpliceInitNew \/ SpliceInitUsed

\* append or split_off has been applied
Spliced == op \in {"append", "split_off", "split_off;append"}

SpliceAppend == ~Spliced /\ AppendFrom(SpliceOthers, MaxLen)

SpliceSplitOff == ~Spliced /\ SplitOff

\* the caller's sequence  let n = line.split_off(index); line.append(n)
SpliceSplitOffAppend ==
    /\ ~Spliced
    /\ \E index \in 0..Len(line.text) :
          LET s == split_off(line, index)
          IN /\ line' = append(s.self, s.ret)
             /\ op' = "split_off;append"
             /\ arg' = <<index>>
             /\ ret' = {}
             /\ engines' = {}
             /\ old' = Peek(line)
             /\ UNCHANGED <<pc, scratch>>

SpliceNext ==
    \/ SpliceAppend
    \/ SpliceSplitOff
    \/ SpliceSplitOffAppend

SpecSplice == SpliceInit /\ [][SpliceNext]_vars

(***************************************************************************)
(* Properties                                                              *)
(***************************************************************************)
Setters == {"set_text", "set_ending", "set_attrs_list", "set_align"}
Readers == {"shape", "layout"}

\* the call just made (op') changed a value: a setter that returned true
ChangedBy(names) == op' \in names /\ ret' = TRUE

\* C1 (invalidation completeness): after a set_text, set_ending or
\* set_attrs_list that returns true, and after every append, split_off and
\* reset_new, shape_opt() and layout_opt() both return None; and a slot that
\* returns None keeps returning None under every call other than shape()
\* and layout().
C1_InvalidationCompleteness ==
    [][/\ (\/ ChangedBy({"set_text", "set_ending", "set_attrs_list"})
           \/ op' \in {"append", "split_off", "reset_new"})
          => shape_opt(line') = {} /\ layout_opt(line') = {}
       /\ (op' \notin Readers /\ shape_opt(line) = {}) => shape_opt(line') = {}
       /\ (op' \notin Readers /\ layout_opt(line) = {}) => layout_opt(line') = {}
      ]_vars

\* a value-changing set_ending found both slots Valid and left both stale
C1_Witness ==
    /\ op = "set_ending" /\ ret = TRUE
    /\ old.shape = "Used" /\ old.layout = "Used"
    /\ shape_opt(line) = {} /\ layout_opt(line) = {}

\* C2 (layout-only invalidation): a set_align with an alignment other than
\* the current one returns true, makes layout_opt() return None and leaves
\* the shape slot (state and artifact), text, ending, attribute list,
\* shaping mode and metadata as they were.
C2_LayoutOnlyInvalidation ==
    [][(op' = "set_align" /\ arg'[1] # line.align)
          => /\ ret' = TRUE
             /\ layout_opt(line') = {}
             /\ line'.align = arg'[1]
             /\ line'.shape_opt = line.shape_opt
             /\ line'.text = line.text
             /\ line'.ending = line.ending
             /\ line'.attrs_list = line.attrs_list
             /\ line'.shaping = line.shaping
             /\ line'.metadata = line.metadata
      ]_vars

\* a value-changing set_align on a fully computed line with metadata
C2_Witness ==
    /\ op = "set_align" /\ ret = TRUE
    /\ old.shape = "Used" /\ old.layout = "Used" /\ old.metadata # {}
    /\ shape_opt(line) # {} /\ layout_opt(line) = {} /\ line.metadata # {}

\* C3 (idempotence of the setters): each setter returns true exactly when
\* one of the values it compares differs from the current one, and a call
\* that returns false leaves the whole line (both slots with their
\* artifacts, metadata, text, ending, attribute list, alignment) unchanged.
C3_SetterIdempotence ==
    [][/\ op' = "set_text"
            => ret' = (<<arg'[1], arg'[2], arg'[3]>>
                          # <<line.text, line.ending, line.attrs_list>>)
       /\ op' = "set_ending" => ret' = (arg'[1] # line.ending)
       /\ op' = "set_attrs_list" => ret' = (arg'[1] # line.attrs_list)
       /\ op' = "set_align" => ret' = (arg'[1] # line.align)
       /\ (op' \in Setters /\ ret' = FALSE) => line' = line
      ]_vars

\* set_text with the current values on a fully computed line with metadata
C3_Witness ==
    /\ op = "set_text" /\ ret = FALSE
    /\ arg = <<line.text, line.ending, line.attrs_list>>
    /\ shape_opt(line) # {} /\ layout_opt(line) # {} /\ line.metadata # {}

C6_RecomputeInvalidatesLayout ==
    [][/\ (op' = "shape" /\ "shape" \in engines') => layout_opt(line') = {}
       /\ "shape" \in engines'
            => \A r \in layout_opt(line') :
                  "layout" \in engines' /\ {r.shape} = shape_opt(line')
      ]_vars

\* shape() recomputed a shape that had been Valid and was marked stale
C6_Witness ==
    /\ op = "shape" /\ engines = {"shape"}
    /\ old.shape = "Unused" /\ old.layout = "Unused"
    /\ shape_opt(line) # {} /\ layout_opt(line) = {}

\* C7 (shape cache validity): an artifact returned by shape_opt() was built
\* from the current text, the current attribute list and the current shaping
\* mode, with the tab width of the call that built it.
C7_ShapeCacheValid ==
    \A s \in shape_opt(line) :
        /\ s.text = line.text
        /\ s.attrs_list = line.attrs_list
        /\ s.shaping = line.shaping
        /\ s.tab_width \in TabWidths
        /\ (op \in Readers /\ "shape" \in engines) => s.tab_width = arg[Len(arg)]

\* the shape was recomputed after an edit had marked it stale
C7_Witness ==
    /\ op = "shape" /\ engines = {"shape"} /\ old.shape = "Unused"
    /\ shape_opt(line) # {}

\* C8 (layout cache validity, stored inputs): rows returned by layout_opt()
\* were laid out from the artifact shape_opt() returns and with the current
\* alignment.
C8_LayoutCacheValid ==
    \A r \in layout_opt(line) :
        /\ shape_opt(line) = {r.shape}
        /\ r.align = line.align

\* layout() laid out again after the alignment had been set
C8_Witness ==
    /\ op = "layout" /\ "layout" \in engines /\ old.layout = "Unused"
    /\ line.align # {} /\ layout_opt(line) # {}

\* C9 as the spec states it: the rows layout() returns are laid out with the
\* font size, width, wrap and mono width of that call.
C9_Original ==
    op = "layout"
        => /\ ret # {}
           /\ \A r \in ret :
                /\ r.font_size = arg[1]
                /\ r.width_opt = arg[2]
                /\ r.wrap = arg[3]
                /\ r.match_mono_width = arg[4]

\* C9 (amended): layout() on a stale layout slot returns rows laid out with
\* the parameters of that call; layout() on a Valid slot returns the cached
\* rows unchanged and invokes no engine, whatever the parameters of the call.
C9_LayoutParamsOfRecompute ==
    [][op' = "layout"
          => IF layout_opt(line) = {}
             THEN /\ "layout" \in engines'
                  /\ ret' # {}
                  /\ ret' = layout_opt(line')
                  /\ \A r \in ret' :
                        /\ r.font_size = arg'[1]
                        /\ r.width_opt = arg'[2]
                        /\ r.wrap = arg'[3]
                        /\ r.match_mono_width = arg'[4]
             ELSE /\ ret' = layout_opt(line)
                  /\ line' = line
                  /\ engines' = {}
      ]_vars

\* layout() returned cached rows laid out with another font size
C9_Witness ==
    /\ op = "layout" /\ engines = {}
    /\ \E r \in ret : r.font_size # arg[1]

\* the attributes in force at byte i of line l
AttrsAt(l, i) == get_span(l.attrs_list, i)

\* the line has no span over a byte at or past the end of its text
SpansInText(l) == \A p \in l.attrs_list.spans : p[1] < Len(l.text)

\* what C10 states of A.append(B), A the line before the call
AppendKeepsAttrs(A, B, after) ==
    /\ after.text = A.text \o B.text
    /\ \A i \in 0..(Len(A.text) - 1) : AttrsAt(after, i) = AttrsAt(A, i)
    /\ \A j \in 0..(Len(B.text) - 1) : AttrsAt(after, Len(A.text) + j) = AttrsAt(B, j)
    /\ after.attrs_list.defaults = A.attrs_list.defaults

\* C10 as the spec states it: for any lines A and B, A.append(B) makes the
\* text the concatenation, keeps the attributes of every byte of A, gives
\* byte len(A)+j the attributes of byte j of B, and keeps A's defaults.
C10_Original ==
    [][op' = "append" => AppendKeepsAttrs(line, arg'[1], line')]_vars

\* C10 (amended): the same, for every line A that has no span over a byte at
\* or past the end of its text, and any line B.
C10_AppendOffsets ==
    [][(op' = "append" /\ SpansInText(line))
          => AppendKeepsAttrs(line, arg'[1], line')]_vars

\* an append of a line with other defaults and a span of its own to a line
\* that has a span, all spans inside the texts
C10_Witness ==
    /\ op = "append"
    /\ arg[1].attrs_list.defaults # line.attrs_list.defaults
    /\ Len(arg[1].text) = 2
    /\ Len(line.text) > 2
    /\ SpansInText(arg[1]) /\ SpansInText(line)
    /\ \E p \in arg[1].attrs_list.spans : p[2] # arg[1].attrs_list.defaults
    /\ \E j \in 0..1 : \A p \in arg[1].attrs_list.spans : p[1] # j
    /\ \E p \in line.attrs_list.spans : p[1] < Len(line.text) - 2

\* C11 (split round-trip): for a line with text T and attribute list S and
\* any index k in 0..len(T), n = line.split_off(k) followed by
\* line.append(n) leaves the text T and gives every byte of it the
\* attributes it had under S, with the defaults of S.
C11_SplitRoundTrip ==
    [][op' = "split_off;append"
          => /\ line'.text = line.text
             /\ \A i \in 0..(Len(line.text) - 1) : AttrsAt(line', i) = AttrsAt(line, i)
             /\ line'.attrs_list.defaults = line.attrs_list.defaults
      ]_vars

\* a round trip at an index inside the text, cutting between two bytes that
\* carry a span other than the defaults, with a byte of defaults elsewhere
C11_Witness ==
    /\ op = "split_off;append"
    /\ 0 < arg[1] /\ arg[1] < Len(line.text)
    /\ \E a \in AttrVals \ {line.attrs_list.defaults} :
          {<<arg[1] - 1, a>>, <<arg[1], a>>} \subseteq line.attrs_list.spans
    /\ \E i \in 0..(Len(line.text) - 1) : \A p \in line.attrs_list.spans : p[1] # i

\* the parameters of shape() and of layout() checked on a line
ShapeParams == TabWidths
LayoutParams == FontSizes \X WidthOpts \X Wraps \X MonoOpts \X TabWidths

\* lines a and b give the same answers to every observer
SameObservably(a, b) ==
    /\ a.text = b.text /\ a.ending = b.ending /\ a.attrs_list = b.attrs_list
    /\ a.align = b.align /\ a.shaping = b.shaping
    /\ metadata(a) = metadata(b)
    /\ shape_opt(a) = shape_opt(b) /\ layout_opt(a) = layout_opt(b)
    /\ \A tab \in ShapeParams :
          shape(a, tab).ret = shape(b, tab).ret /\ shape(a, tab).ret # {}
    /\ \A q \in LayoutParams :
          LET la == layout(a, q[1], q[2], q[3], q[4], q[5])
              lb == layout(b, q[1], q[2], q[3], q[4], q[5])
          IN /\ la.ret = lb.ret /\ la.ret # {}
             /\ shape_opt(la.self) = shape_opt(lb.self)

\* C12 (pool reuse): from any prior state of the line, also one made by
\* empty() or left invalid by reclaim_text or reclaim_attrs, reset_new(t, e,
\* a, s) leaves both caches stale and metadata None, and the line is
\* observably equal to new(t, e, a, s): same text, ending, attribute list,
\* alignment None and shaping, and shape() and layout() with the same
\* parameters succeed with the same results.
C12_PoolReuse ==
    [][op' = "reset_new"
          => /\ is_unused(line'.shape_opt) /\ is_unused(line'.layout_opt)
             /\ metadata(line') = {}
             /\ line'.align = {}
             /\ SameObservably(line', new(arg'[1], arg'[2], arg'[3], arg'[4]))
      ]_vars

\* a reset_new of a line that had both artifacts, an alignment's layout and
\* metadata, to a text with a span
C12_Witness ==
    /\ op = "reset_new"
    /\ old.shape = "Used" /\ old.layout = "Used" /\ old.metadata # {}
    /\ line.shape_opt.st = "Unused" /\ line.layout_opt.st = "Unused"
    /\ line.text # <<>> /\ line.attrs_list.spans # {}

\* the call just made (op') marked both the shape and the layout slot unused
ResetsBothCaches ==
    \/ op' \in {"reset", "reset_shaping", "reset_new", "append", "split_off"}
    \/ ChangedBy({"set_text", "set_ending", "set_attrs_list"})

\* C13 (documented metadata lifetime), as the doc comments of metadata() and
\* set_metadata() state it: after any call that resets both the shape and
\* the layout cache metadata() is None until set_metadata is called again,
\* and a value stored by set_metadata is kept until the next such reset.
C13_DocumentedMetadataLifetime ==
    [][/\ ResetsBothCaches => metadata(line') = {}
       /\ op' = "set_metadata" => metadata(line') = {arg'[1]}
       /\ (~ResetsBothCaches /\ op' # "set_metadata") => metadata(line') = metadata(line)
      ]_vars

\* C14 (reads always succeed): in every reachable state shape() and layout()
\* end with the slot they serve Valid and return its artifact, so neither
\* expect fails: after shape() shape_opt() is Some, after layout() both
\* shape_opt() and layout_opt() are Some.
C14_ReadsSucceed ==
    /\ \A tab \in ShapeParams :
          LET s == shape(line, tab)
          IN s.ret # {} /\ shape_opt(s.self) = s.ret
    /\ \A q \in LayoutParams :
          LET r == layout(line, q[1], q[2], q[3], q[4], q[5])
          IN r.ret # {} /\ layout_opt(r.self) = r.ret /\ shape_opt(r.self) # {}
    /\ op \in Readers => ret # {}

\* a layout() that found both slots retained and stale, rebuilt both and
\* returned the rows
C14_Witness ==
    /\ op = "layout"
    /\ old.shape = "Unused" /\ old.layout = "Unused"
    /\ engines = {"shape", "layout"}
    /\ ret # {} /\ ret = layout_opt(line) /\ shape_opt(line) # {}

\* C15 (split_off(k) result): the receiver keeps text[0..k) and the spans of
\* that prefix, the returned line holds text[k..) with its spans rebased to
\* start at 0; the returned line has the receiver's ending, shaping and
\* alignment, both caches Empty and metadata None; the receiver's ending,
\* alignment and shaping are unchanged, its metadata is cleared and both its
\* caches are stale, also when k is 0 or len(text).
C15_SplitOffResult ==
    [][op' = "split_off"
          => LET k == arg'[1]
                 n == ret'
             IN /\ line'.text = SubSeq(line.text, 1, k)
                /\ n.text = SubSeq(line.text, k + 1, Len(line.text))
                /\ \A i \in 0..(k - 1) : AttrsAt(line', i) = AttrsAt(line, i)
                /\ \A j \in 0..(Len(n.text) - 1) : AttrsAt(n, j) = AttrsAt(line, k + j)
                /\ SpansInText(line')
                /\ line'.attrs_list.defaults = line.attrs_list.defaults
                /\ n.attrs_list.defaults = line.attrs_list.defaults
                /\ n.ending = line.ending /\ n.shaping = line.shaping
                /\ n.align = line.align
                /\ n.shape_opt = Empty /\ n.layout_opt = Empty /\ metadata(n) = {}
                /\ line'.ending = line.ending /\ line'.shaping = line.shaping
                /\ line'.align = line.align
                /\ metadata(line') = {}
                /\ is_unused(line'.shape_opt) /\ is_unused(line'.layout_opt)
      ]_vars

\* a split inside the text of a line that was aligned, tagged and laid
\* out, with a span other than the defaults on each side of the cut
C15_Witness ==
    /\ op = "split_off"
    /\ 0 < arg[1] /\ ret.text # <<>>
    /\ old.shape = "Used" /\ old.layout = "Used" /\ old.metadata # {}
    /\ line.align # {} /\ ret.align = line.align
    /\ \E p \in line.attrs_list.spans : p[2] # line.attrs_list.defaults
    /\ \E p \in ret.attrs_list.spans : p[2] # ret.attrs_list.defaults

\* C16 (append(other) frame): the merged line keeps the receiver's
\* alignment, shaping and line ending, and other's alignment, shaping,
\* ending, caches and metadata have no influence on it; the receiver's
\* metadata is cleared and both its caches are marked stale.
C16_AppendFrame ==
    [][op' = "append"
          => /\ line'.align = line.align
             /\ line'.shaping = line.shaping
             /\ line'.ending = line.ending
             /\ metadata(line') = {}
             /\ is_unused(line'.shape_opt) /\ is_unused(line'.layout_opt)
             /\ line'.shape_opt.st = (IF old'.shape = "Empty" THEN "Empty" ELSE "Unused")
             /\ line'.layout_opt.st = (IF old'.layout = "Empty" THEN "Empty" ELSE "Unused")
             /\ \A e \in Endings, s \in Shapings, al \in Aligns :
                   line' = append(line, [arg'[1] EXCEPT !.ending = e, !.shaping = s,
                                                       !.align = al, !.metadata = {},
                                                       !.shape_opt = Empty,
                                                       !.layout_opt = Empty])
      ]_vars

\* an append, to a laid-out line with metadata, of a laid-out line with
\* metadata whose ending, shaping and alignment all differ from the receiver's
C16_Witness ==
    /\ op = "append"
    /\ old.shape = "Used" /\ old.layout = "Used" /\ old.metadata # {}
    /\ arg[1].ending # line.ending
    /\ arg[1].shaping # line.shaping
    /\ arg[1].align # line.align
    /\ arg[1].metadata # {}
    /\ arg[1].shape_opt.st = "Used" /\ arg[1].layout_opt.st = "Used"
    /\ arg[1].text # <<>>

\* a call that ran statement by statement ends as the call taken whole does
StepsRefineCalls ==
    [][(pc # "idle" /\ pc' = "idle")
          => \A e \in scratch.entry :
               LET r == IF op = "shape"
                        THEN shape(e, arg[1])
                        ELSE layout(e, arg[1], arg[2], arg[3], arg[4], arg[5])
               IN line' = r.self /\ ret' = r.ret /\ engines' = r.engines
      ]_vars

Slots == {"shape", "layout"}

SlotOf(l, x) == IF x = "shape" THEN l.shape_opt ELSE l.layout_opt

\* C17 (single storage handoff): within one recomputation by shape() or
\* layout() the storage of a slot is taken at most once and is installed
\* back into that same slot; from the take to the install the slot is
\* Empty, also across the shape() call that layout() makes, whose
\* set_unused on the layout slot neither takes the storage again nor puts
\* one back; so no storage is held by a slot and a local at once.
C17_SingleStorageHandoff ==
    /\ [](\A x \in Slots :
            /\ scratch[x] # "none" => SlotOf(line, x).st = "Empty"
            /\ scratch.takes[x] <= 1
            /\ scratch.takes[x] = 1 => old[x] = "Unused")
    /\ [][\A x \in Slots :
            /\ scratch'[x] # scratch[x]
                  => \/ /\ pc = x \o ":take"
                        /\ scratch[x] = "none"
                        /\ scratch'[x] = (IF SlotOf(line, x).st = "Unused"
                                          THEN "taken" ELSE "fresh")
                        /\ SlotOf(line', x).st = "Empty"
                     \/ /\ pc = x \o ":set_used"
                        /\ scratch'[x] = "none"
                        /\ SlotOf(line', x).st = "Used"
            /\ (scratch[x] # "none" /\ scratch'[x] # "none")
                  => SlotOf(line', x) = SlotOf(line, x)
            /\ pc' = "idle" => scratch'[x] = "none"
         ]_vars
    /\ [](pc # "panic")

\* inside the shape() call made by layout(): the layout storage taken from
\* its slot is held by the local, the shape storage has been taken too
C17_Witness ==
    /\ op = "layout"
    /\ pc = "shape:build"
    /\ scratch.layout = "taken" /\ scratch.shape = "taken"
    /\ line.layout_opt.st = "Empty" /\ line.shape_opt.st = "Empty"

\* C18 (no work on a Valid slot): shape() on a Valid shape slot invokes no
\* engine and changes nothing; layout() on a Valid layout slot invokes no
\* engine and changes nothing; the layout() that follows a value-changing
\* set_align on a line with both slots Valid invokes the layout engine, not
\* the shaping engine, and leaves the shape artifact as it was.
C18_NoWorkOnValidSlot ==
    [][/\ (op' = "shape" /\ shape_opt(line) # {})
          => engines' = {} /\ line' = line /\ ret' = shape_opt(line)
       /\ (op' = "layout" /\ layout_opt(line) # {})
          => engines' = {} /\ line' = line /\ ret' = layout_opt(line)
       /\ (/\ op = "set_align" /\ ret = TRUE
           /\ old.shape = "Used" /\ old.layout = "Used"
           /\ op' = "layout")
          => /\ engines' = {"layout"}
             /\ line'.shape_opt = line.shape_opt /\ shape_opt(line') # {}
             /\ layout_opt(line') = ret'
             /\ \A r \in ret' : r.align = line.align
      ]_vars

\* a layout() that found the shape Valid and the layout retained and stale,
\* as a value-changing set_align leaves them, and ran the layout engine only
C18_Witness ==
    /\ op = "layout"
    /\ old.shape = "Used" /\ old.layout = "Unused"
    /\ engines = {"layout"}
    /\ line.align # {}
    /\ \A r \in ret : r.align = line.align

\* C19 (layout Valid implies shape Valid): in every reachable state, if
\* layout_opt() is Some then shape_opt() is Some.
C19_LayoutValidImpliesShapeValid ==
    layout_opt(line) # {} => shape_opt(line) # {}

\* a call that touches no slot, made on a line with both slots Valid
C19_Witness ==
    /\ op = "set_metadata"
    /\ layout_opt(line) # {} /\ shape_opt(line) # {}

\* C20 (storage never dropped by edits): a slot that holds an artifact or
\* retained storage is not Empty after any call; a call other than shape()
\* and layout() moves a Valid slot at most to Retained; so a recomputation
\* of a slot that ever had an artifact gets retained storage from
\* take_unused and ends with the slot Valid.
C20_StorageNeverDropped ==
    [][\A x \in Slots :
         /\ SlotOf(line, x).st # "Empty" => SlotOf(line', x).st # "Empty"
         /\ (op' \notin Readers /\ SlotOf(line, x).st = "Used")
               => SlotOf(line', x).st \in {"Used", "Unused"}
         /\ (op' \notin Readers /\ SlotOf(line, x).st # "Used")
               => SlotOf(line', x) = SlotOf(line, x)
         /\ (op' \in Readers /\ x \in engines' /\ SlotOf(line, x).st # "Empty")
               => take_unused(SlotOf(line, x)).taken /\ SlotOf(line', x).st = "Used"
      ]_vars

\* a layout() after a reset_new of a line that had both artifacts: both
\* slots were retained and both were rebuilt
C20_Witness ==
    /\ op = "layout"
    /\ old.shape = "Unused" /\ old.layout = "Unused"
    /\ engines = {"shape", "layout"}
    /\ line.shape_opt.st = "Used" /\ line.layout_opt.st = "Used"
    /\ line.metadata = {} /\ line.align = {}

====
